---------------------------- MODULE Spec2Model ----------------------------
(***************************************************************************)
(* Model of backend/main.py, the Resume Analyzer API: three endpoints      *)
(* (upload-resume, generate-questions, evaluate-answer), the text          *)
(* extraction dispatch, the three prompt/parse routines with their         *)
(* fallback payloads, and the shared scratch directory `uploads`.          *)
(*                                                                         *)
(* Text is a sequence of one-character strings.  The grave accent (the     *)
(* character of a markdown code fence) cannot be written inside a TLA+     *)
(* string literal; it is written "~" throughout, so Chars("~~~json") is    *)
(* the seven characters of a json-tagged fence.                            *)
(***************************************************************************)
EXTENDS Integers, Sequences, FiniteSets, TLC

(* ------------------------------ text --------------------------------- *)

Chars(str) == [i \in 1..Len(str) |-> SubSeq(str, i, i)]

Rep(c, n) == [i \in 1..n |-> c]

\* The characters of s at positions from..to, those that exist: s[from-1:to]
Slice(s, from, to) ==
    LET a == IF from < 1 THEN 1 ELSE from
        b == IF to > Len(s) THEN Len(s) ELSE to
    IN  IF a > b THEN <<>> ELSE [i \in 1..(b - a + 1) |-> s[a + i - 1]]

\* str.startswith(prefix)
startswith(s, prefix) ==
    /\ Len(prefix) <= Len(s)
    /\ Slice(s, 1, Len(prefix)) = prefix

\* str.endswith(suffix)
endswith(s, suffix) ==
    /\ Len(suffix) <= Len(s)
    /\ Slice(s, Len(s) - Len(suffix) + 1, Len(s)) = suffix

\* s[n:]
DropFirst(s, n) == Slice(s, n + 1, Len(s))

\* s[:-n]
DropLast(s, n) == Slice(s, 1, Len(s) - n)

\* s[:n]
Take(s, n) == Slice(s, 1, n)

\* The characters str.strip() removes (those of them the model's texts use).
IsSpace(c) == c \in {" ", "\t", "\n", "\r", "\f"}

RECURSIVE lstrip(_)
lstrip(s) ==
    IF s # <<>> /\ IsSpace(Head(s)) THEN lstrip(Tail(s)) ELSE s

RECURSIVE rstrip(_)
rstrip(s) ==
    IF s # <<>> /\ IsSpace(s[Len(s)]) THEN rstrip(DropLast(s, 1)) ELSE s

\* str.strip()
strip(s) == rstrip(lstrip(s))

\* str.lower(), on the letters the model's filenames use
lower_char(c) ==
    CASE c = "P" -> "p" [] c = "D" -> "d" [] c = "F" -> "f"
      [] c = "T" -> "t" [] c = "X" -> "x" [] c = "O" -> "o"
      [] c = "C" -> "c" [] c = "V" -> "v"
      [] OTHER -> c

lower(s) == [i \in 1..Len(s) |-> lower_char(s[i])]

\* The largest index of c in s, 0 when absent: str.rfind(c) + 1
RECURSIVE rfind(_, _)
rfind(s, c) ==
    IF s = <<>> THEN 0
    ELSE IF s[Len(s)] = c THEN Len(s)
    ELSE rfind(DropLast(s, 1), c)

\* sep.join(parts)
RECURSIVE join(_, _)
join(sep, parts) ==
    IF parts = <<>> THEN <<>>
    ELSE IF Len(parts) = 1 THEN parts[1]
    ELSE parts[1] \o sep \o join(sep, Tail(parts))

\* Whether part occurs in s as a run of consecutive characters: part in s
Contains(s, part) ==
    \E i \in 0..(Len(s) - Len(part)) : Slice(s, i + 1, i + Len(part)) = part

(* ------------------------------ JSON --------------------------------- *)

\* A decoded JSON value.  Every value has the same fields, so that any two
\* can be compared.
JNull      == [k |-> "null",   n |-> 0, s |-> <<>>, items |-> <<>>, members |-> <<>>]
JBool(b)   == [k |-> IF b THEN "true" ELSE "false",
               n |-> 0, s |-> <<>>, items |-> <<>>, members |-> <<>>]
JNum(n)    == [k |-> "number", n |-> n, s |-> <<>>, items |-> <<>>, members |-> <<>>]
JStr(s)    == [k |-> "string", n |-> 0, s |-> s,    items |-> <<>>, members |-> <<>>]
JArr(xs)   == [k |-> "array",  n |-> 0, s |-> <<>>, items |-> xs,   members |-> <<>>]
\* A dict: its (key, value) pairs in insertion order.
JObj(ms)   == [k |-> "object", n |-> 0, s |-> <<>>, items |-> <<>>, members |-> ms]

\* dict[key] = value: a repeated key keeps its place and takes the new value.
DictSet(ms, key, value) ==
    IF \E i \in 1..Len(ms) : ms[i][1] = key
    THEN [i \in 1..Len(ms) |-> IF ms[i][1] = key THEN <<key, value>> ELSE ms[i]]
    ELSE Append(ms, <<key, value>>)

HasKey(obj, key) == \E i \in 1..Len(obj.members) : obj.members[i][1] = key

\* dict[key]
Get(obj, key) ==
    obj.members[CHOOSE i \in 1..Len(obj.members) : obj.members[i][1] = key][2]

Digits == {"0", "1", "2", "3", "4", "5", "6", "7", "8", "9"}

DigitValue(c) ==
    CASE c = "0" -> 0 [] c = "1" -> 1 [] c = "2" -> 2 [] c = "3" -> 3
      [] c = "4" -> 4 [] c = "5" -> 5 [] c = "6" -> 6 [] c = "7" -> 7
      [] c = "8" -> 8 [] c = "9" -> 9

\* The whitespace the JSON decoder skips.
IsJsonSpace(c) == c \in {" ", "\t", "\n", "\r"}

At(s, i) == IF i >= 1 /\ i <= Len(s) THEN s[i] ELSE "EOF"

RECURSIVE SkipWs(_, _)
SkipWs(s, i) == IF IsJsonSpace(At(s, i)) THEN SkipWs(s, i + 1) ELSE i

\* A parse step's outcome: whether it succeeded, the value, the next position.
Parsed(v, pos) == [ok |-> TRUE, val |-> v, pos |-> pos]
ParseFail      == [ok |-> FALSE, val |-> JNull, pos |-> 0]

\* A string's characters from position i (after the opening quote) to the
\* closing quote; control characters are not allowed inside it.
RECURSIVE ParseStringBody(_, _, _)
ParseStringBody(s, i, acc) ==
    LET c == At(s, i) IN
    IF c = "\"" THEN Parsed(JStr(acc), i + 1)
    ELSE IF c \in {"EOF", "\n", "\t", "\r", "\f", "\\"} THEN ParseFail
    ELSE ParseStringBody(s, i + 1, Append(acc, c))

\* An integer: 0, or a nonzero digit followed by digits.
RECURSIVE ParseDigits(_, _, _)
ParseDigits(s, i, acc) ==
    IF At(s, i) \in Digits
    THEN ParseDigits(s, i + 1, 10 * acc + DigitValue(At(s, i)))
    ELSE Parsed(JNum(acc), i)

ParseNumber(s, i) ==
    IF At(s, i) = "0" THEN Parsed(JNum(0), i + 1) ELSE ParseDigits(s, i, 0)

ParseLiteral(s, i) ==
    IF Slice(s, i, i + 3) = Chars("null") THEN Parsed(JNull, i + 4)
    ELSE IF Slice(s, i, i + 3) = Chars("true") THEN Parsed(JBool(TRUE), i + 4)
    ELSE IF Slice(s, i, i + 4) = Chars("false") THEN Parsed(JBool(FALSE), i + 5)
    ELSE ParseFail

RECURSIVE ParseValue(_, _)
RECURSIVE ParseItems(_, _, _)
RECURSIVE ParseMembers(_, _, _)

\* The value that starts at position i (whitespace already skipped).
ParseValue(s, i) ==
    LET c == At(s, i) IN
    IF c = "{" THEN
        LET j == SkipWs(s, i + 1) IN
        IF At(s, j) = "}" THEN Parsed(JObj(<<>>), j + 1)
        ELSE ParseMembers(s, j, <<>>)
    ELSE IF c = "[" THEN
        LET j == SkipWs(s, i + 1) IN
        IF At(s, j) = "]" THEN Parsed(JArr(<<>>), j + 1)
        ELSE ParseItems(s, j, <<>>)
    ELSE IF c = "\"" THEN ParseStringBody(s, i + 1, <<>>)
    ELSE IF c \in Digits THEN ParseNumber(s, i)
    ELSE ParseLiteral(s, i)

\* The items of an array from position i, up to its closing bracket.
ParseItems(s, i, acc) ==
    LET v == ParseValue(s, i) IN
    IF ~v.ok THEN ParseFail
    ELSE LET j == SkipWs(s, v.pos) IN
         IF At(s, j) = "," THEN ParseItems(s, SkipWs(s, j + 1), Append(acc, v.val))
         ELSE IF At(s, j) = "]" THEN Parsed(JArr(Append(acc, v.val)), j + 1)
         ELSE ParseFail

\* The "key": value pairs of an object from position i, up to its closing brace.
ParseMembers(s, i, acc) ==
    IF At(s, i) # "\"" THEN ParseFail
    ELSE
    LET key == ParseStringBody(s, i + 1, <<>>) IN
    IF ~key.ok THEN ParseFail
    ELSE
    LET c == SkipWs(s, key.pos) IN
    IF At(s, c) # ":" THEN ParseFail
    ELSE
    LET v == ParseValue(s, SkipWs(s, c + 1)) IN
    IF ~v.ok THEN ParseFail
    ELSE
    LET j   == SkipWs(s, v.pos)
        ms  == DictSet(acc, key.val.s, v.val)
    IN  IF At(s, j) = "," THEN ParseMembers(s, SkipWs(s, j + 1), ms)
        ELSE IF At(s, j) = "}" THEN Parsed(JObj(ms), j + 1)
        ELSE ParseFail

\* json.loads(s): [ok |-> FALSE] stands for json.JSONDecodeError.
WholeDocument(s, v) ==
    IF v.ok /\ SkipWs(s, v.pos) = Len(s) + 1
    THEN [ok |-> TRUE, val |-> v.val]
    ELSE [ok |-> FALSE, val |-> JNull]

json_loads(s) == WholeDocument(s, ParseValue(s, SkipWs(s, 1)))

(* ------------------- the remote completion call ---------------------- *)

\* What one call of client.chat.completions.create does: it raises `error`
\* (an exception of the client library: connection, rate limit, timeout), or
\* it returns a completion whose message content is `content` (None when
\* has_content is false).
RaisedBy(type, msg)  == [raised |-> TRUE, error |-> [type |-> type, msg |-> msg],
                         has_content |-> FALSE, content |-> <<>>]
Returned(content)    == [raised |-> FALSE, error |-> [type |-> "", msg |-> <<>>],
                         has_content |-> TRUE, content |-> content]
ReturnedNone         == [raised |-> FALSE, error |-> [type |-> "", msg |-> <<>>],
                         has_content |-> FALSE, content |-> <<>>]

\* The outcome of a block of code: completed with a value, or raised.
Value(v)     == [exc |-> "", msg |-> <<>>, val |-> v]
Raise(t, m)  == [exc |-> t,  msg |-> m,    val |-> JNull]

\* The characters removed for a json-tagged fence and for a fence.
JsonFenceLen == 7
FenceLen     == 3

\* The length str(e) is cut to in the resume-analysis fallback.
ErrorCut == 100

\* The json-tagged fence cut one character short.
strip_json_fence_short(s) ==
    IF startswith(s, Chars("~~~json")) THEN DropFirst(s, JsonFenceLen - 1) ELSE s

\* if response_text.startswith('~~~json'): response_text = response_text[7:]
strip_json_fence(s) ==
    IF startswith(s, Chars("~~~json")) THEN DropFirst(s, JsonFenceLen) ELSE s

\* if response_text.startswith('~~~'): response_text = response_text[3:]
strip_open_fence(s) ==
    IF startswith(s, Chars("~~~")) THEN DropFirst(s, FenceLen) ELSE s

\* if response_text.endswith('~~~'): response_text = response_text[:-3]
strip_close_fence(s) ==
    IF endswith(s, Chars("~~~")) THEN DropLast(s, FenceLen) ELSE s

\* The clean-up of the response: .strip(), the three fence tests, .strip()
strip_fences(response_text) ==
    strip(strip_close_fence(strip_open_fence(strip_json_fence(strip(response_text)))))

\* json.loads(response_text): the value, or json.JSONDecodeError
decode(response_text) == json_loads(response_text)

DecodeOutcome(decoded) ==
    IF decoded.ok THEN Value(decoded.val)
    ELSE Raise("JSONDecodeError", Chars("Expecting value"))

\* The body of the try block the three routines share: the call, the
\* message content, the clean-up, json.loads.
call_and_parse(remote) ==
    IF remote.raised THEN Raise(remote.error.type, remote.error.msg)
    ELSE IF ~remote.has_content
    THEN Raise("AttributeError",
               Chars("'NoneType' object has no attribute 'strip'"))
    ELSE DecodeOutcome(decode(strip_fences(remote.content)))

StrList(texts) == JArr([i \in 1..Len(texts) |-> JStr(Chars(texts[i]))])

Key(name) == Chars(name)

\* The payload of `except json.JSONDecodeError` in analyze_resume_with_ai.
analysis_parse_fallback ==
    JObj(<< <<Key("overall_score"), JNum(7)>>,
            <<Key("strengths"), StrList(<<"Resume received and processed">>)>>,
            <<Key("weaknesses"), StrList(<<"Unable to perform detailed analysis">>)>>,
            <<Key("suggestions"), StrList(<<"Please try uploading again">>)>>,
            <<Key("keywords_missing"), JArr(<<>>)>>,
            <<Key("formatting_feedback"), JStr(Chars("Standard formatting detected"))>>,
            <<Key("summary"), JStr(Chars(
              "Your resume has been received. Please try the analysis again for detailed feedback."))>> >>)

\* The error payload with str(e) not cut.
analysis_error_fallback_uncut(msg) ==
    JObj(<< <<Key("overall_score"), JNum(5)>>,
            <<Key("strengths"), StrList(<<"Resume uploaded successfully">>)>>,
            <<Key("weaknesses"), StrList(<<"Analysis service temporarily unavailable">>)>>,
            <<Key("suggestions"), StrList(<<"Please try again in a moment">>)>>,
            <<Key("keywords_missing"), JArr(<<>>)>>,
            <<Key("formatting_feedback"), JStr(Chars("Unable to analyze at this time"))>>,
            <<Key("summary"), JStr(Chars("Error occurred: ") \o msg)>> >>)

\* The payload of `except Exception as e` in analyze_resume_with_ai.
analysis_error_fallback(msg) ==
    JObj(<< <<Key("overall_score"), JNum(5)>>,
            <<Key("strengths"), StrList(<<"Resume uploaded successfully">>)>>,
            <<Key("weaknesses"), StrList(<<"Analysis service temporarily unavailable">>)>>,
            <<Key("suggestions"), StrList(<<"Please try again in a moment">>)>>,
            <<Key("keywords_missing"), JArr(<<>>)>>,
            <<Key("formatting_feedback"), JStr(Chars("Unable to analyze at this time"))>>,
            <<Key("summary"),
              JStr(Chars("Error occurred: ") \o Take(msg, ErrorCut))>> >>)

\* The payload of `except Exception` in generate_interview_questions.
questions_fallback ==
    JObj(<< <<Key("technical_questions"), StrList(<<
                "Tell me about your technical skills and experience",
                "Describe a challenging technical problem you solved",
                "What technologies are you most comfortable with?",
                "How do you stay updated with new technologies?",
                "Explain a project you're proud of">>)>>,
            <<Key("behavioral_questions"), StrList(<<
                "Describe a time you worked on a team project",
                "Tell me about a challenge you overcame",
                "How do you handle tight deadlines?",
                "Describe a time you had to learn something new quickly",
                "Tell me about a mistake you made and what you learned">>)>>,
            <<Key("situational_questions"), StrList(<<
                "How would you handle conflicting priorities?",
                "What would you do if you disagreed with your manager?",
                "How would you approach a project with unclear requirements?">>)>> >>)

\* The payload of `except Exception` in evaluate_answer.
evaluation_fallback ==
    JObj(<< <<Key("score"), JNum(6)>>,
            <<Key("feedback"), JStr(Chars(
              "Thank you for your answer. Try to provide more specific examples and details."))>>,
            <<Key("suggestions"), StrList(<<
                "Include concrete examples from your experience",
                "Structure your answer with a clear beginning, middle, and end">>)>>,
            <<Key("strong_points"), StrList(<<"You provided a response to the question">>)>> >>)

\* What a routine hands back: the dict it returns (exc is "": its handlers
\* catch every exception), how many times it called the completion API, and
\* the data its prompt embeds.
Routine(value, calls, embedded) ==
    [exc |-> "", msg |-> <<>>, value |-> value, calls |-> calls, embedded |-> embedded]


\* The handlers with `except Exception` written first, so that it also
\* takes the JSONDecodeError.
analyze_resume_handlers_generic_first(body) ==
    IF body.exc = "" THEN body.val ELSE analysis_error_fallback(body.msg)

\* The return and the two handlers of analyze_resume_with_ai, `body`
\* being what its try block did.
analyze_resume_handlers(body) ==
    IF body.exc = "" THEN body.val
    ELSE IF body.exc = "JSONDecodeError" THEN analysis_parse_fallback
    ELSE analysis_error_fallback(body.msg)

analyze_resume_with_ai(resume_text, remote) ==
    Routine(analyze_resume_handlers(call_and_parse(remote)), 1, <<resume_text>>)

\* The return and the handler of generate_interview_questions.
generate_questions_handlers(body) ==
    IF body.exc = "" THEN body.val ELSE questions_fallback

\* The routine calling the completion API a second time after a failure.
generate_interview_questions_retry(resume_text, remote) ==
    Routine(generate_questions_handlers(call_and_parse(remote)),
            IF call_and_parse(remote).exc = "" THEN 1 ELSE 2, <<resume_text>>)

generate_interview_questions(resume_text, remote) ==
    Routine(generate_questions_handlers(call_and_parse(remote)), 1, <<resume_text>>)

\* The handler answering a JSONDecodeError with the resume-analysis payload.
evaluate_answer_handlers_copied(body) ==
    IF body.exc = "" THEN body.val
    ELSE IF body.exc = "JSONDecodeError" THEN analysis_parse_fallback
    ELSE evaluation_fallback

\* The return and the handler of evaluate_answer.
evaluate_answer_handlers(body) ==
    IF body.exc = "" THEN body.val ELSE evaluation_fallback

evaluate_answer(question, answer, remote) ==
    Routine(evaluate_answer_handlers(call_and_parse(remote)), 1, <<question, answer>>)

(* ------------------------ documents and files ------------------------ *)

MinResumeLen == 50
PreviewLen   == 500

\* Sizes of the uploaded texts and of the long error message.
ShortLen   == 10
PadLen     == 2
LongErrLen == 120

\* An uploaded document: the format its bytes are in and the text it holds.
Doc(format, text) == [format |-> format, text |-> text]

\* What a path of the scratch directory holds: nothing, a file of zero
\* bytes (opened "wb", not yet written), or a document's bytes.
Absent == Doc("absent", <<>>)
Empty  == Doc("empty", <<>>)

ShortTxt  == Doc("txt", Rep("a", ShortLen))
PaddedTxt == Doc("txt", Rep(" ", PadLen) \o Rep("b", MinResumeLen - 1) \o Rep("\n", PadLen))
ResumeTxt == Doc("txt", Rep("c", MinResumeLen))
ResumePdf == Doc("pdf", Rep("d", MinResumeLen + PadLen))

Documents == {ShortTxt, PaddedTxt, ResumeTxt, ResumePdf}

Filenames == {Chars("cv.txt"), Chars("cv.TXT"), Chars("cv.pdf"), Chars("cv.xyz")}

UPLOAD_DIR == Chars("uploads")

\* os.path.join(UPLOAD_DIR, file.filename)
file_path(filename) == UPLOAD_DIR \o <<"/">> \o filename

Paths == {file_path(f) : f \in Filenames}

\* os.path.splitext(filename)[1]: from the last dot, unless only dots (or
\* nothing) come before it in the last path component.
splitext_ext(p) ==
    LET sepIndex == rfind(p, "/")
        dotIndex == rfind(p, ".")
    IN  IF dotIndex > sepIndex
           /\ \E k \in (sepIndex + 1)..(dotIndex - 1) : p[k] # "."
        THEN Slice(p, dotIndex, Len(p))
        ELSE <<>>

allowed_extensions == <<Chars(".pdf"), Chars(".docx"), Chars(".txt")>>

\* file_ext = os.path.splitext(file.filename)[1].lower()
file_ext(filename) == lower(splitext_ext(filename))

InList(x, xs) == \E i \in 1..Len(xs) : xs[i] = x

\* The outcome of an extraction: the text, or the exception raised.
Text(t)          == [exc |-> "", msg |-> <<>>, text |-> t]
NoText(type, m)  == [exc |-> type, msg |-> m, text |-> <<>>]

NoSuchFile == NoText("FileNotFoundError", Chars("No such file or directory"))

\* PyPDF2.PdfReader over the file and page.extract_text() of each page
extract_text_from_pdf(file) ==
    IF file = Absent THEN NoSuchFile
    ELSE IF file.format = "pdf" THEN Text(file.text)
    ELSE NoText("PdfReadError", Chars("EOF marker not found"))

\* docx.Document(file_path) and its paragraphs joined with newlines
extract_text_from_docx(file) ==
    IF file = Absent THEN NoText("PackageNotFoundError", Chars("Package not found"))
    ELSE IF file.format = "docx" THEN Text(file.text)
    ELSE NoText("BadZipFile", Chars("File is not a zip file"))

\* open(file_path, 'r', encoding='utf-8').read()
read_utf8(file) ==
    IF file = Absent THEN NoSuchFile
    ELSE IF file.format \in {"txt", "empty"} THEN Text(file.text)
    ELSE NoText("UnicodeDecodeError", Chars("invalid start byte"))

\* extract_text_from_file(file_path, filename), `file` being what the path holds
extract_text_from_file(file, filename) ==
    IF endswith(filename, Chars(".pdf")) THEN extract_text_from_pdf(file)
    ELSE IF endswith(filename, Chars(".docx")) THEN extract_text_from_docx(file)
    ELSE IF endswith(filename, Chars(".txt")) THEN read_utf8(file)
    ELSE NoText("ValueError", Chars("Unsupported file type"))

(* ---------------------------- responses ------------------------------ *)

\* An HTTP response; an HTTPException is answered {"detail": detail}.
Response(status, body) == [status |-> status, body |-> body]
HTTPException(status, detail) ==
    Response(status, JObj(<< <<Key("detail"), JStr(detail)>> >>))
NoResponse == Response(0, JNull)

\* An exception no handler catches: the framework's 500.
Unhandled == Response(500, JStr(Chars("Internal Server Error")))

\* str(e) of an HTTPException
http_exception_str(status_text, detail) == Chars(status_text) \o Chars(": ") \o detail

\* The rejection raised inside the try block, and so answered as a 500.
unsupported_file_type_wrapped ==
    HTTPException(500, Chars("Error processing resume: ")
                       \o http_exception_str("400",
                             Chars("File type not supported. Please upload ")
                             \o join(Chars(", "), allowed_extensions)))

unsupported_file_type ==
    HTTPException(400, Chars("File type not supported. Please upload ")
                       \o join(Chars(", "), allowed_extensions))

too_short_detail == Chars("Resume appears to be empty or too short")

\* What a try block does: it raises (exc is the exception's type, msg its
\* str()), or it returns `response`; and the calls it made on the way.
Raises(type, msg, calls, embedded) ==
    [exc |-> type, msg |-> msg, response |-> NoResponse,
     calls |-> calls, embedded |-> embedded]
Returns(response, calls, embedded) ==
    [exc |-> "", msg |-> <<>>, response |-> response,
     calls |-> calls, embedded |-> embedded]

\* `except Exception as e: raise HTTPException(500, prefix + str(e))`: it
\* catches whatever the block raised, an HTTPException included.
except_exception(block, prefix) ==
    IF block.exc # ""
    THEN Returns(HTTPException(500, Chars(prefix) \o block.msg),
                 block.calls, block.embedded)
    ELSE block

\* What a block does after a routine `ai` came back: its exception goes
\* on, or the block returns 200 with `body`.
AfterRoutine(ai, body) ==
    IF ai.exc # "" THEN Raises(ai.exc, ai.msg, ai.calls, ai.embedded)
    ELSE Returns(Response(200, body), ai.calls, ai.embedded)

upload_resume_body(filename, resume_text, analysis) ==
    JObj(<< <<Key("success"), JBool(TRUE)>>,
            <<Key("filename"), JStr(filename)>>,
            <<Key("analysis"), analysis>>,
            <<Key("resume_text"), JStr(Take(resume_text, PreviewLen) \o Chars("..."))>> >>)

upload_resume_analyze(filename, resume_text, ai) ==
    AfterRoutine(ai, upload_resume_body(filename, resume_text, ai.value))

\* The try block of upload_resume, given what extraction and the completion
\* call do.
upload_resume_block(filename, extraction, remote) ==
    IF extraction.exc # "" THEN Raises(extraction.exc, extraction.msg, 0, <<>>)
    ELSE IF Len(strip(extraction.text)) < MinResumeLen
    THEN Raises("HTTPException", http_exception_str("400", too_short_detail), 0, <<>>)
    ELSE upload_resume_analyze(filename, extraction.text,
                               analyze_resume_with_ai(extraction.text, remote))

upload_resume_try(filename, extraction, remote) ==
    except_exception(upload_resume_block(filename, extraction, remote),
                     "Error processing resume: ")

generate_questions_body(questions) ==
    JObj(<< <<Key("success"), JBool(TRUE)>>, <<Key("questions"), questions>> >>)

generate_questions_generate(ai) == AfterRoutine(ai, generate_questions_body(ai.value))

\* The try block of generate_questions.
generate_questions_block(extraction, remote) ==
    IF extraction.exc # "" THEN Raises(extraction.exc, extraction.msg, 0, <<>>)
    ELSE generate_questions_generate(generate_interview_questions(extraction.text, remote))

generate_questions_try(extraction, remote) ==
    except_exception(generate_questions_block(extraction, remote),
                     "Error generating questions: ")

evaluate_answer_body(evaluation) ==
    JObj(<< <<Key("success"), JBool(TRUE)>>, <<Key("evaluation"), evaluation>> >>)

evaluate_answer_evaluate(ai) == AfterRoutine(ai, evaluate_answer_body(ai.value))

\* The try block of evaluate_answer_endpoint.
evaluate_answer_block(question, answer, remote) ==
    evaluate_answer_evaluate(evaluate_answer(question, answer, remote))

evaluate_answer_try(question, answer, remote) ==
    except_exception(evaluate_answer_block(question, answer, remote),
                     "Error evaluating answer: ")

(* --------------------------- the inputs ------------------------------ *)

DigitChar(n) == CHOOSE c \in Digits : DigitValue(c) = n

ConnectionError == RaisedBy("APIConnectionError", Chars("Connection error."))
\* An error whose message is longer than the cut of the analysis fallback.
LongError == RaisedBy("RateLimitError", [i \in 1..LongErrLen |-> DigitChar(i % 10)])

RemoteErrors  == {ConnectionError, LongError}
RemoteInvalid == {Returned(Chars("Sorry, I cannot help with that."))}
RemoteValid   == {Returned(Chars("~~~json\n{\"overall_score\": 8}\n~~~"))}

\* What the completion call may do during a request.
Remotes == RemoteErrors \cup RemoteInvalid \cup RemoteValid \cup {ReturnedNone}

Questions == {Chars("Why Go?")}
Answers   == {Chars("Because I like it."), <<>>}

\* The requests in flight at one time: each is a slot that serves one
\* request after another.
Slots == {"s1", "s2"}

(* --------------------------- the state ------------------------------- *)

VARIABLES
    pc,        \* per slot: "idle", "reading" (suspended in `await file.read()`), "done"
    request,   \* per slot: the request being served
    response,  \* per slot: the response sent, once done
    effects,   \* per slot: what the request has done so far
    uploads,   \* the scratch directory: what each path holds
    linked,    \* per slot: whether the file the request opened is still the one at its path
    probe      \* a parse routine applied to one raw response (ParseSpec)

vars == <<pc, request, response, effects, uploads, linked, probe>>

Request(endpoint, filename, document, question, answer) ==
    [endpoint |-> endpoint, filename |-> filename, document |-> document,
     question |-> question, answer |-> answer]
NoRequest == Request("", <<>>, Absent, <<>>, <<>>)

\* opened: the scratch file was opened for writing; extracted: extraction
\* was attempted, on the file `read`, with the outcome `extraction`; calls:
\* the completion calls made, the last with the outcome `remote`;
\* embedded: the data the prompt embedded.
NoEffects ==
    [opened |-> FALSE, extracted |-> FALSE, read |-> Absent,
     extraction |-> Text(<<>>), calls |-> 0, remote |-> ReturnedNone,
     embedded |-> <<>>]

NoProbe ==
    [stage |-> "none", routine |-> "", lead |-> <<>>, open |-> <<>>, gap1 |-> <<>>,
     body |-> <<>>, gap2 |-> <<>>, close |-> <<>>, trail |-> <<>>, result |-> JNull]

ServerInit ==
    /\ pc = [s \in Slots |-> "idle"]
    /\ request = [s \in Slots |-> NoRequest]
    /\ response = [s \in Slots |-> NoResponse]
    /\ effects = [s \in Slots |-> NoEffects]
    /\ uploads = [p \in Paths |-> Absent]
    /\ linked = [s \in Slots |-> FALSE]

Init == ServerInit /\ probe = NoProbe

(* -------------------------- the endpoints ---------------------------- *)

\* with open(file_path, "wb") as f: the path now names an empty file, the
\* one already there (truncated) or a new one.
OpenForWriting(s, path) ==
    /\ uploads' = [uploads EXCEPT ![path] = Empty]
    /\ linked' = [linked EXCEPT ![s] = TRUE]

\* f.write(content): the bytes reach the path only if the file opened is
\* still the one the path names.
Written(s, path, document) ==
    IF linked[s] THEN [uploads EXCEPT ![path] = document] ELSE uploads

\* finally: if os.path.exists(file_path): os.remove(file_path).  Whoever
\* has the file open keeps a file no path names.
Cleanup(files, path) ==
    /\ uploads' = [files EXCEPT ![path] = Absent]
    /\ linked' = [q \in Slots |->
                    IF pc[q] = "reading" /\ file_path(request[q].filename) = path
                    THEN FALSE ELSE linked[q]]

\* A handler runs only once every response already produced has been
\* delivered: delivery follows the handler's return at once, and touches
\* nothing another request reads.
Delivered == \A q \in Slots : pc[q] # "done"

\* upload_resume up to `await file.read()`: the extension check, and the
\* scratch file opened.
UploadResumeBegin(s) ==
    /\ pc[s] = "idle"
    /\ Delivered
    /\ \E filename \in Filenames, document \in Documents :
         /\ request' = [request EXCEPT ![s] =
                          Request("upload-resume", filename, document, <<>>, <<>>)]
         /\ IF ~InList(file_ext(filename), allowed_extensions)
            THEN /\ pc' = [pc EXCEPT ![s] = "done"]
                 /\ response' = [response EXCEPT ![s] = unsupported_file_type]
                 /\ UNCHANGED <<effects, uploads, linked>>
            ELSE /\ pc' = [pc EXCEPT ![s] = "reading"]
                 /\ effects' = [effects EXCEPT ![s].opened = TRUE]
                 /\ OpenForWriting(s, file_path(filename))
                 /\ UNCHANGED response
    /\ UNCHANGED probe

\* What a request has done once its handler is through its try block.
EffectsOf(file, extraction, out, remote) ==
    [opened |-> TRUE, extracted |-> TRUE, read |-> file,
     extraction |-> extraction, calls |-> out.calls,
     remote |-> IF out.calls > 0 THEN remote ELSE ReturnedNone,
     embedded |-> out.embedded]

\* The end of both upload handlers: the response `out` of the try block
\* and the finally block; or, when the read or the write of the upload
\* failed (io = "error"), the exception leaving the handler before its
\* try block, so that nothing removes the file.
Finish(s, io, path, files, extraction, out, remote) ==
    /\ IF io = "error"
       THEN /\ response' = [response EXCEPT ![s] = Unhandled]
            /\ UNCHANGED <<effects, uploads, linked>>
       ELSE /\ response' = [response EXCEPT ![s] = out.response]
            /\ effects' = [effects EXCEPT ![s] =
                             EffectsOf(files[path], extraction, out, remote)]
            /\ Cleanup(files, path)
    /\ pc' = [pc EXCEPT ![s] = "done"]
    /\ UNCHANGED <<request, probe>>

\* upload_resume from `await file.read()` on.
UploadResumeFinish(s) ==
    /\ pc[s] = "reading"
    /\ Delivered
    /\ request[s].endpoint = "upload-resume"
    /\ \E io \in {"ok", "error"}, remote \in Remotes :
       \E path \in {file_path(request[s].filename)} :
       \E files \in {Written(s, path, request[s].document)} :
       \E extraction \in {extract_text_from_file(files[path], request[s].filename)} :
       \E out \in {upload_resume_try(request[s].filename, extraction, remote)} :
          Finish(s, io, path, files, extraction, out, remote)

\* generate_questions up to `await file.read()`: no extension check.
GenerateQuestionsBegin(s) ==
    /\ pc[s] = "idle"
    /\ Delivered
    /\ \E filename \in Filenames, document \in Documents :
         /\ request' = [request EXCEPT ![s] =
                          Request("generate-questions", filename, document, <<>>, <<>>)]
         /\ OpenForWriting(s, file_path(filename))
    /\ pc' = [pc EXCEPT ![s] = "reading"]
    /\ effects' = [effects EXCEPT ![s].opened = TRUE]
    /\ UNCHANGED <<response, probe>>

\* generate_questions from `await file.read()` on.
GenerateQuestionsFinish(s) ==
    /\ pc[s] = "reading"
    /\ Delivered
    /\ request[s].endpoint = "generate-questions"
    /\ \E io \in {"ok", "error"}, remote \in Remotes :
       \E path \in {file_path(request[s].filename)} :
       \E files \in {Written(s, path, request[s].document)} :
       \E extraction \in {extract_text_from_file(files[path], request[s].filename)} :
       \E out \in {generate_questions_try(extraction, remote)} :
          Finish(s, io, path, files, extraction, out, remote)

\* evaluate_answer_endpoint: nothing in it awaits.
EvaluateAnswerEndpoint(s) ==
    /\ pc[s] = "idle"
    /\ Delivered
    /\ \E question \in Questions, answer \in Answers, remote \in Remotes :
       \E out \in {evaluate_answer_try(question, answer, remote)} :
         /\ request' = [request EXCEPT ![s] =
                          Request("evaluate-answer", <<>>, Absent, question, answer)]
         /\ response' = [response EXCEPT ![s] = out.response]
         /\ effects' = [effects EXCEPT ![s] =
               [NoEffects EXCEPT !.calls = out.calls,
                                 !.remote = IF out.calls > 0 THEN remote ELSE ReturnedNone,
                                 !.embedded = out.embedded]]
    /\ pc' = [pc EXCEPT ![s] = "done"]
    /\ UNCHANGED <<uploads, linked, probe>>

\* The response is delivered; the slot takes the next request.
NextRequest(s) ==
    /\ pc[s] = "done"
    /\ pc' = [pc EXCEPT ![s] = "idle"]
    /\ request' = [request EXCEPT ![s] = NoRequest]
    /\ response' = [response EXCEPT ![s] = NoResponse]
    /\ effects' = [effects EXCEPT ![s] = NoEffects]
    /\ linked' = [linked EXCEPT ![s] = FALSE]
    /\ UNCHANGED <<uploads, probe>>

Next ==
    \E s \in Slots :
        \/ UploadResumeBegin(s)
        \/ UploadResumeFinish(s)
        \/ GenerateQuestionsBegin(s)
        \/ GenerateQuestionsFinish(s)
        \/ EvaluateAnswerEndpoint(s)
        \/ NextRequest(s)

Spec == Init /\ [][Next]_vars

(* ------------- the parse routines on fenced responses ---------------- *)

\* The most whitespace put around a response.
MaxPad == 1

Pads == {Rep(" ", n) : n \in 0..MaxPad} \cup {Rep("\n", n) : n \in 0..MaxPad}

\* How a response may open: no fence, a json-tagged fence, a bare fence ...
HandledOpens == {<<>>, Chars("~~~json"), Chars("~~~")}
\* ... or a fence with another language tag.
OtherOpens   == {Chars("~~~JSON"), Chars("~~~python")}
Closes       == {<<>>, Chars("~~~")}
Gaps         == {<<>>, <<"\n">>}

\* JSON documents, each with the value it denotes.
JsonDocs ==
    { [text  |-> Chars("{\"a\":1}"),
       value |-> JObj(<< <<Chars("a"), JNum(1)>> >>)],
      [text  |-> Chars("{\"score\": 8, \"tags\": [\"x\", \"y z\"]}"),
       value |-> JObj(<< <<Chars("score"), JNum(8)>>,
                         <<Chars("tags"), JArr(<<JStr(Chars("x")), JStr(Chars("y z"))>>)>> >>)],
      [text  |-> Chars("[]"),   value |-> JArr(<<>>)],
      [text  |-> Chars("\"ok\""), value |-> JStr(Chars("ok"))],
      [text  |-> Chars("70"),   value |-> JNum(70)] }

NotJson == {Chars("Sorry"), Chars("{\"a\":"), <<>>}

Bodies == {d.text : d \in JsonDocs} \cup NotJson

Denoted(text) == (CHOOSE d \in JsonDocs : d.text = text).value

Routines == {"analyze_resume_with_ai", "generate_interview_questions", "evaluate_answer"}

\* The raw response a probe is about.
RawOf(p) == p.lead \o p.open \o p.gap1 \o p.body \o p.gap2 \o p.close \o p.trail

\* What a routine returns when the completion call returns `raw`.
RoutineValue(routine, raw) ==
    CASE routine = "analyze_resume_with_ai" ->
            analyze_resume_with_ai(<<>>, Returned(raw)).value
      [] routine = "generate_interview_questions" ->
            generate_interview_questions(<<>>, Returned(raw)).value
      [] routine = "evaluate_answer" ->
            evaluate_answer(<<>>, <<>>, Returned(raw)).value

ParseInit ==
    /\ ServerInit
    /\ probe \in [stage : {"in"}, routine : Routines, lead : Pads,
                  open : HandledOpens \cup OtherOpens, gap1 : Gaps, body : Bodies,
                  gap2 : Gaps, close : Closes, trail : Pads, result : {JNull}]

ParseResponse ==
    /\ probe.stage = "in"
    /\ probe' = [probe EXCEPT !.stage = "out",
                              !.result = RoutineValue(probe.routine, RawOf(probe))]
    /\ UNCHANGED <<pc, request, response, effects, uploads, linked>>

ParseNext == ParseResponse

ParseSpec == ParseInit /\ [][ParseNext]_vars

(* ----------------------------- claims ------------------------------- *)

Done(s)        == pc[s] = "done"
IsUpload(s)    == request[s].endpoint = "upload-resume"
IsQuestions(s) == request[s].endpoint = "generate-questions"
IsEvaluate(s)  == request[s].endpoint = "evaluate-answer"

\* The request passed upload-resume's extension check.
Validated(s) ==
    file_ext(request[s].filename) \in {Chars(".pdf"), Chars(".docx"), Chars(".txt")}

\* The call failed: it raised, or its text is not JSON.
CallFailed(s) ==
    effects[s].calls > 0 /\ effects[s].remote \in RemoteErrors \cup RemoteInvalid

Detail(s)     == Get(response[s].body, Key("detail")).s
Analysis(s)   == Get(response[s].body, Key("analysis"))
QuestionSet(s) == Get(response[s].body, Key("questions"))
Evaluation(s) == Get(response[s].body, Key("evaluation"))

\* C1: an upload-resume request with a supported extension whose extracted
\* text, trimmed, is shorter than 50 characters is answered 400, and the
\* completion API is not called during it.
C1_ShortTextIs400 ==
    \A s \in Slots :
        ( /\ Done(s) /\ IsUpload(s) /\ Validated(s)
          /\ effects[s].extracted
          /\ effects[s].extraction.exc = ""
          /\ Len(strip(effects[s].extraction.text)) < 50 )
        => /\ response[s].status = 400
           /\ effects[s].calls = 0

\* C2 (as claimed): when upload-resume reaches the analysis and the call
\* raises or returns text that is not JSON, the answer is 200 and the
\* analysis is the fallback whose overall_score is 7, in both cases.
C2_FallbackScoreIs7 ==
    \A s \in Slots :
        (Done(s) /\ IsUpload(s) /\ CallFailed(s))
        => /\ response[s].status = 200
           /\ Get(Analysis(s), Key("overall_score")) = JNum(7)

\* C2 (amended): when upload-resume reaches the analysis, the answer is 200
\* in both cases; the analysis is the fallback whose overall_score is 7
\* when the returned text is not JSON, and the fallback whose overall_score
\* is 5 when the call raises an error.
C2_AnalysisFallbacks ==
    \A s \in Slots :
        (Done(s) /\ IsUpload(s) /\ effects[s].calls > 0)
        => /\ effects[s].remote \in RemoteInvalid
                => /\ response[s].status = 200
                   /\ Analysis(s) = analysis_parse_fallback
                   /\ Get(Analysis(s), Key("overall_score")) = JNum(7)
           /\ effects[s].remote \in RemoteErrors
                => /\ response[s].status = 200
                   /\ Get(Analysis(s), Key("overall_score")) = JNum(5)

C2_Witness ==
    \E s \in Slots :
        /\ Done(s) /\ IsUpload(s) /\ effects[s].calls = 1
        /\ effects[s].remote = ConnectionError
        /\ response[s].status = 200
        /\ Get(Analysis(s), Key("overall_score")) = JNum(5)

\* C3: once every request has completed, whatever its outcome (a failure
\* while reading or writing the upload included), the scratch directory is
\* empty.
C3_ScratchEmptyWhenIdle ==
    (\A s \in Slots : pc[s] \in {"idle", "done"})
    => \A p \in Paths : uploads[p] = Absent

\* C4: an upload-resume request whose extension is not .pdf, .docx or .txt
\* is answered 400 with a message listing the three, before anything is
\* persisted: no scratch file, no extraction, no completion call.
C4_UnsupportedExtensionRejected ==
    \A s \in Slots :
        (Done(s) /\ IsUpload(s) /\ ~Validated(s))
        => /\ response[s].status = 400
           /\ Contains(Detail(s), Chars(".pdf, .docx, .txt"))
           /\ ~effects[s].opened
           /\ ~effects[s].extracted
           /\ effects[s].calls = 0

C4_Witness ==
    \E s \in Slots :
        /\ Done(s) /\ IsUpload(s)
        /\ request[s].filename = Chars("cv.xyz")
        /\ response[s].status = 400
        /\ ~effects[s].opened

\* C5: when generate-questions or evaluate-answer has called the completion
\* API and the call raised or returned text that is not JSON, the answer is
\* 200 with the operation's fixed fallback; the evaluation fallback has
\* score 6, whatever the question and the answer.
C5_QuestionAndEvaluationFallbacks ==
    \A s \in Slots :
        (Done(s) /\ CallFailed(s))
        => /\ IsQuestions(s) => /\ response[s].status = 200
                                /\ QuestionSet(s) = questions_fallback
           /\ IsEvaluate(s)  => /\ response[s].status = 200
                                /\ Evaluation(s) = evaluation_fallback
                                /\ Get(Evaluation(s), Key("score")) = JNum(6)

C5_Witness ==
    \E s \in Slots :
        /\ Done(s) /\ IsEvaluate(s)
        /\ request[s].question = Chars("Why Go?")
        /\ request[s].answer = Chars("Because I like it.")
        /\ effects[s].remote \in RemoteErrors
        /\ response[s].status = 200
        /\ Get(Evaluation(s), Key("score")) = JNum(6)

\* The probe's response is a JSON document inside a leading and/or a
\* trailing fence.
Wrapped == probe.body \notin NotJson /\ (probe.open # <<>> \/ probe.close # <<>>)

\* C6 (as claimed): in the three routines, a JSON document wrapped in a
\* leading fence (with a language tag or bare) and/or a trailing fence, with
\* whitespace around, is returned decoded, not replaced by the fallback.
C6_AnyFenceIsStripped ==
    (probe.stage = "out" /\ Wrapped) => probe.result = Denoted(probe.body)

\* C6 (amended): the same, for a leading fence that is bare or tagged
\* exactly `json`; a fence with any other tag is not stripped whole.
C6_JsonOrBareFenceIsStripped ==
    (probe.stage = "out" /\ Wrapped /\ probe.open \in HandledOpens)
    => probe.result = Denoted(probe.body)

C6_Witness ==
    /\ probe.stage = "out"
    /\ probe.open = Chars("~~~json") /\ probe.close = Chars("~~~")
    /\ probe.lead # <<>> /\ probe.gap1 # <<>>
    /\ probe.body = Chars("{\"a\":1}")
    /\ probe.result = JObj(<< <<Chars("a"), JNum(1)>> >>)

\* C7: whatever the interleaving of upload-resume and generate-questions
\* requests, same filename included, what a request extracts from, and
\* forwards in its prompt, is the document that request uploaded: no other
\* request's overwrite or removal of the scratch file shows in it.
C7_ExtractsOwnDocument ==
    \A s \in Slots :
        (Done(s) /\ effects[s].extracted)
        => /\ effects[s].read = request[s].document
           /\ effects[s].calls > 0
                => effects[s].embedded = <<request[s].document.text>>

\* C8: no request calls the completion API more than once; a request whose
\* call failed made exactly that one call.
C8_AtMostOneCall ==
    \A s \in Slots :
        /\ effects[s].calls <= 1
        /\ (Done(s) /\ CallFailed(s)) => effects[s].calls = 1

C8_Witness ==
    \E s \in Slots :
        /\ Done(s) /\ IsQuestions(s)
        /\ effects[s].remote \in RemoteErrors
        /\ effects[s].calls = 1
        /\ QuestionSet(s) = questions_fallback

\* Whether one of the strings of a payload (a member, or an item of a
\* member list) holds the text.
HoldsText(obj, text) ==
    \E i \in 1..Len(obj.members) :
        \/ Contains(obj.members[i][2].s, text)
        \/ \E j \in 1..Len(obj.members[i][2].items) :
               Contains(obj.members[i][2].items[j].s, text)

ErrorOf(s) == effects[s].remote.error.msg

\* C9 (as claimed): when the call raised, it is the evaluation variant
\* whose fallback has a summary holding str(e) cut to 100 characters.
C9_EvaluationEmbedsError ==
    \A s \in Slots :
        (Done(s) /\ IsEvaluate(s) /\ effects[s].calls > 0
                 /\ effects[s].remote \in RemoteErrors)
        => /\ HasKey(Evaluation(s), Key("summary"))
           /\ HoldsText(Evaluation(s), Slice(ErrorOf(s), 1, 100))

\* C9 (amended): when the call raised, it is the resume-analysis variant
\* whose fallback has the summary "Error occurred: " followed by str(e) cut
\* to 100 characters; the evaluation and question fallbacks hold no error
\* text, and neither does the analysis fallback for text that is not JSON.
C9_AnalysisEmbedsError ==
    \A s \in Slots :
        (Done(s) /\ effects[s].calls > 0)
        => /\ effects[s].remote \in RemoteErrors
                => /\ IsUpload(s) =>
                        Get(Analysis(s), Key("summary")).s
                          = Chars("Error occurred: ") \o Slice(ErrorOf(s), 1, 100)
                   /\ IsEvaluate(s) =>
                        /\ ~HasKey(Evaluation(s), Key("summary"))
                        /\ ~HoldsText(Evaluation(s), Slice(ErrorOf(s), 1, 5))
                   /\ IsQuestions(s) =>
                        ~HoldsText(QuestionSet(s), Slice(ErrorOf(s), 1, 5))
           /\ (effects[s].remote \in RemoteInvalid /\ IsUpload(s))
                => ~HoldsText(Analysis(s), Chars("Error"))

C9_Witness ==
    \E s \in Slots :
        /\ Done(s) /\ IsUpload(s)
        /\ effects[s].remote = LongError
        /\ Len(ErrorOf(s)) > 100
        /\ Len(Get(Analysis(s), Key("summary")).s) = Len(Chars("Error occurred: ")) + 100

\* C10: a filename that passes upload-resume's extension check is handed
\* by extract_text_from_file to one of the three extractors; it never
\* raises the unsupported-file-type error, so the request does not end in
\* a 500 because of its extension.
C10_ValidatedIsDispatched ==
    \A s \in Slots :
        (Done(s) /\ IsUpload(s) /\ Validated(s) /\ effects[s].extracted)
        => /\ effects[s].extraction.exc # "ValueError"
           /\ ~(/\ response[s].status = 500
                /\ Contains(Detail(s), Chars("Unsupported file type")))

=============================================================================
